---- MODULE Spec2Model ----
(***************************************************************************)
(* A model of gocco (src/main.go; src/src/gocco/gocco.go is a near copy).  *)
(*                                                                         *)
(* Three views of the program are modelled, each with its own              *)
(* specification over the same module:                                     *)
(*   SpecFile  parse and highlight on the bytes of one file                *)
(*   Spec      main, its goroutines, the WaitGroup and the output files    *)
(*   SpecPipe  the byte flow between highlight and the pygmentize process  *)
(*                                                                         *)
(* Bytes are modelled as tokens: a token stands for a byte or for a fixed  *)
(* string of bytes that the program treats as a unit.                      *)
(***************************************************************************)
EXTENDS Naturals, Integers, Sequences, FiniteSets, TLC

VARIABLES
    \* ---- one file: parse and highlight (SpecFile)
    code,       \* the bytes of the file, parse's argument
    lines,      \* bytes.Split(code, "\n")
    idx,        \* position of the range loop over lines
    hasCode,    \* parse's flag
    codeText,   \* parse's code buffer
    docsText,   \* parse's documentation buffer
    sections,   \* the list of Section values
    fpc,        \* position in parse / highlight
    output,     \* highlight's remaining output
    elem,       \* highlight's list cursor e (index into sections)
    matches,    \* history: how often dividerHTML.FindIndex matched
    \* ---- the whole run: main and its goroutines (Spec)
    argv,       \* the command line's path arguments, as given
    args,       \* flag.Args(): the slice main ranges over
    sources,    \* the global sources
    mainpc,     \* position of main
    argi,       \* position of main's range loop over flag.Args()
    wg,         \* the WaitGroup's counter
    docsDir,    \* whether docs/ was created
    css,        \* whether docs/gocco.css was written
    task,       \* the goroutines started, in order
    fs,         \* the output documents, by path
    crashed,    \* "no", or the panic that ended the process
    \* ---- the pipes of one highlight call (SpecPipe)
    chunks,     \* lengths of the writes highlight makes, in order
    wpos,       \* index of the write in progress
    wleft,      \* bytes of that write not yet accepted by the pipe
    inPipe,     \* bytes in the stdin pipe
    held,       \* bytes the highlighter has read and not yet emitted
    outPipe,    \* bytes in the stdout pipe
    inClosed,   \* pygmentsInput.Close() was called
    outClosed,  \* the highlighter closed its output (it exited)
    buf,        \* bytes io.Copy has moved into buf
    hpc         \* position of highlight: "write", "close", "copy", "done"

fileVars == <<code, lines, idx, hasCode, codeText, docsText, sections, fpc,
              output, elem, matches>>
mainVars == <<argv, args, sources, mainpc, argi, wg, docsDir, css, task, fs,
              crashed>>
pipeVars == <<chunks, wpos, wleft, inPipe, held, outPipe, inClosed, outClosed,
              buf, hpc>>
vars == <<fileVars, mainVars, pipeVars>>

(***************************************************************************)
(* Tokens                                                                  *)
(***************************************************************************)
NL == "\n"
SP == " "            \* one whitespace byte other than the newline
SYM == "//"          \* Language.symbol of the go language
DIV == "DIVIDER"
X == "x"             \* any other text
C1 == "<span class=\"c1\">"
ENDSPAN == "</span>"
highlightStart == "<div class=\"highlight\"><pre>"
highlightEnd == "</pre></div>"
Nil == <<"nil">>     \* a nil []byte

Alphabet == {NL, SP, SYM, DIV, X}

\* longest file enumerated token by token
MaxLen == 5

SeqsUpTo(S, n) == UNION {[1..k -> S] : k \in 0..n}

\* longer files: "// hello\nfunc f() {}\n" and "// a\nx\n// b\ny\n" (text
\* written as X), and a file of three sections whose second section's code
\* ends in the trailing comment "//DIVIDER"
Scenarios ==
    { <<SYM, SP, X, NL, X, NL>>,
      <<SYM, SP, X, NL, X, NL, SYM, SP, X, NL, X, NL>>,
      <<X, NL, SYM, SP, X, NL, X, SP, SYM, DIV, NL, SYM, X, NL, X>> }

Files == SeqsUpTo(Alphabet, MaxLen) \cup Scenarios

(***************************************************************************)
(* The go language, as setup() completes it                                *)
(***************************************************************************)
dividerText == <<NL, SYM, DIV, NL>>
dividerHTML == <<C1, SYM, DIV, ENDSPAN>>

\* bytes.Split(s, "\n"): the pieces between newlines, one more than newlines
RECURSIVE Split(_)
Split(s) ==
    IF \A i \in 1..Len(s) : s[i] # NL
    THEN <<s>>
    ELSE LET i == CHOOSE j \in 1..Len(s) :
                      s[j] = NL /\ \A k \in 1..(j-1) : s[k] # NL
         IN <<SubSeq(s, 1, i-1)>> \o Split(SubSeq(s, i+1, Len(s)))

\* number of leading whitespace tokens of a line
LeadingWS(line) ==
    CHOOSE k \in 0..Len(line) :
        /\ \A i \in 1..k : line[i] = SP
        /\ (k = Len(line) \/ line[k+1] # SP)

\* commentMatcher = "^\s*" + symbol + "\s?": the length of its match at the
\* start of line, 0 when it does not match
commentMatchLen(line) ==
    LET w == LeadingWS(line)
    IN IF w < Len(line) /\ line[w+1] = SYM
       THEN IF w+1 < Len(line) /\ line[w+2] = SP THEN w+2 ELSE w+1
       ELSE 0

\* commentMatcher.Match(line)
commentMatch(line) == commentMatchLen(line) > 0

\* commentMatcher.ReplaceAll(line, nil)
commentReplaceAll(line) == SubSeq(line, commentMatchLen(line) + 1, Len(line))

\* blackfriday.MarkdownCommon, an external renderer: kept abstract
MarkdownCommon(d) == <<"<markdown>">> \o d

\* save(docs, code) of parse
save(docs, c) ==
    Append(sections, [docsText |-> docs, codeText |-> c,
                      DocsHTML |-> Nil, CodeHTML |-> Nil])

(***************************************************************************)
(* parse (src/main.go 129-173)                                             *)
(***************************************************************************)
FileIdle ==
    /\ code = <<>> /\ lines = <<>> /\ idx = 0 /\ hasCode = FALSE
    /\ codeText = <<>> /\ docsText = <<>> /\ sections = <<>>
    /\ fpc = "idle" /\ output = <<>> /\ elem = 0 /\ matches = 0

FileInit ==
    /\ code \in Files
    /\ lines = <<>> /\ idx = 0 /\ hasCode = FALSE
    /\ codeText = <<>> /\ docsText = <<>> /\ sections = <<>>
    /\ fpc = "start" /\ output = <<>> /\ elem = 0 /\ matches = 0

\* the statements before the loop
ParseBegin ==
    /\ fpc = "start"
    /\ lines' = Split(code)
    /\ sections' = <<>>
    /\ hasCode' = FALSE /\ codeText' = <<>> /\ docsText' = <<>>
    /\ idx' = 1
    /\ fpc' = "scan"
    /\ UNCHANGED <<code, output, elem, matches>>
    /\ UNCHANGED <<mainVars, pipeVars>>

\* ParseLine without "hasCode = false" after a save
ParseLineKeepsFlag ==
    /\ fpc = "scan" /\ idx <= Len(lines)
    /\ LET line == lines[idx] IN
        IF commentMatch(line)
        THEN IF hasCode
             THEN /\ sections' = save(docsText, codeText)
                  /\ hasCode' = hasCode
                  /\ codeText' = <<>>
                  /\ docsText' = <<>> \o commentReplaceAll(line) \o <<NL>>
             ELSE /\ docsText' = docsText \o commentReplaceAll(line) \o <<NL>>
                  /\ UNCHANGED <<sections, hasCode, codeText>>
        ELSE /\ hasCode' = TRUE
             /\ codeText' = codeText \o line \o <<NL>>
             /\ UNCHANGED <<docsText, sections>>
    /\ idx' = idx + 1
    /\ UNCHANGED <<code, lines, fpc, output, elem, matches>>
    /\ UNCHANGED <<mainVars, pipeVars>>

\* ParseLine without "docsText.Reset()" after a save
ParseLineKeepsDocs ==
    /\ fpc = "scan" /\ idx <= Len(lines)
    /\ LET line == lines[idx] IN
        IF commentMatch(line)
        THEN IF hasCode
             THEN /\ sections' = save(docsText, codeText)
                  /\ hasCode' = FALSE
                  /\ codeText' = <<>>
                  /\ docsText' = docsText \o commentReplaceAll(line) \o <<NL>>
             ELSE /\ docsText' = docsText \o commentReplaceAll(line) \o <<NL>>
                  /\ UNCHANGED <<sections, hasCode, codeText>>
        ELSE /\ hasCode' = TRUE
             /\ codeText' = codeText \o line \o <<NL>>
             /\ UNCHANGED <<docsText, sections>>
    /\ idx' = idx + 1
    /\ UNCHANGED <<code, lines, fpc, output, elem, matches>>
    /\ UNCHANGED <<mainVars, pipeVars>>

\* one iteration of the loop over lines
ParseLine ==
    /\ fpc = "scan" /\ idx <= Len(lines)
    /\ LET line == lines[idx] IN
        IF commentMatch(line)
        THEN IF hasCode
             THEN /\ sections' = save(docsText, codeText)
                  /\ hasCode' = FALSE
                  /\ codeText' = <<>>
                  /\ docsText' = <<>> \o commentReplaceAll(line) \o <<NL>>
             ELSE /\ docsText' = docsText \o commentReplaceAll(line) \o <<NL>>
                  /\ UNCHANGED <<sections, hasCode, codeText>>
        ELSE /\ hasCode' = TRUE
             /\ codeText' = codeText \o line \o <<NL>>
             /\ UNCHANGED <<docsText, sections>>
    /\ idx' = idx + 1
    /\ UNCHANGED <<code, lines, fpc, output, elem, matches>>
    /\ UNCHANGED <<mainVars, pipeVars>>

\* the save after the loop, and the return
ParseSave ==
    /\ fpc = "scan" /\ idx > Len(lines)
    /\ sections' = save(docsText, codeText)
    /\ fpc' = "parsed"
    /\ UNCHANGED <<code, lines, idx, hasCode, codeText, docsText, output, elem,
                   matches>>
    /\ UNCHANGED <<mainVars, pipeVars>>

(***************************************************************************)
(* highlight (src/main.go 179-213)                                         *)
(***************************************************************************)
\* what highlight writes to pygmentsInput: every section's code, the
\* divider between two sections
RECURSIVE PygmentsInput(_)
PygmentsInput(secs) ==
    IF secs = <<>> THEN <<>>
    ELSE IF Len(secs) = 1 THEN secs[1].codeText
    ELSE secs[1].codeText \o dividerText \o PygmentsInput(Tail(secs))

\* the go lexer on one line: a comment runs from the symbol to the end of
\* the line and is rendered in a c1 span, other text is left as it is
RenderLine(line) ==
    IF \A i \in 1..Len(line) : line[i] # SYM
    THEN line
    ELSE LET i == CHOOSE j \in 1..Len(line) :
                      line[j] = SYM /\ \A k \in 1..(j-1) : line[k] # SYM
         IN SubSeq(line, 1, i-1) \o <<C1>> \o SubSeq(line, i, Len(line))
            \o <<ENDSPAN>>

RECURSIVE JoinLines(_)
JoinLines(ls) ==
    IF Len(ls) = 1 THEN RenderLine(ls[1])
    ELSE RenderLine(ls[1]) \o <<NL>> \o JoinLines(Tail(ls))

\* the body of the highlighter's output for an input: every line rendered,
\* in order, the newlines kept
RenderBody(input) == JoinLines(Split(input))

\* pygmentize -f html: the body in the container markup
Pygmentize(input) ==
    <<highlightStart>> \o RenderBody(input) \o <<highlightEnd, NL>>

\* bytes.Replace(s, old, nil, -1) for a one-token old
Replace(s, old) == SelectSeq(s, LAMBDA t : t # old)

\* number of newlines of s directly before position j (exclusive) / from
\* position j on
NLBefore(s, j) ==
    CHOOSE k \in 0..(j-1) :
        /\ \A i \in (j-k)..(j-1) : s[i] = NL
        /\ (k = j-1 \/ s[j-k-1] # NL)
NLFrom(s, j) ==
    CHOOSE k \in 0..(Len(s)-j+1) :
        /\ \A i \in j..(j+k-1) : s[i] = NL
        /\ (j+k > Len(s) \/ s[j+k] # NL)

\* dividerHTML.FindIndex(s) for the pattern \n*<span class="c1?">//DIVIDER</span>\n*:
\* the leftmost match as <<start, end>> byte offsets, Nil when there is none
FindIndex(s) ==
    LET hits == {j \in 1..(Len(s)-3) : SubSeq(s, j, j+3) = dividerHTML}
    IN IF hits = {} THEN Nil
       ELSE LET j == CHOOSE h \in hits : \A g \in hits : h <= g
            IN <<j - 1 - NLBefore(s, j), j + 3 + NLFrom(s, j + 4)>>

\* from exec.Command to the two bytes.Replace calls: the sections go
\* through the highlighter in one batch and the container markup is removed
HighlightPipe ==
    /\ fpc = "parsed"
    /\ output' = Replace(Replace(Pygmentize(PygmentsInput(sections)),
                                 highlightStart), highlightEnd)
    /\ elem' = 1
    /\ fpc' = "extract"
    /\ UNCHANGED <<code, lines, idx, hasCode, codeText, docsText, sections,
                   matches>>
    /\ UNCHANGED <<mainVars, pipeVars>>

\* one iteration of the second loop over the sections
HighlightSection ==
    /\ fpc = "extract" /\ elem <= Len(sections)
    /\ LET found == FindIndex(output)
           index == IF found = Nil THEN <<Len(output), Len(output)>> ELSE found
           fragment == SubSeq(output, 1, index[1])
       IN /\ output' = SubSeq(output, index[2] + 1, Len(output))
          /\ matches' = IF found = Nil THEN matches ELSE matches + 1
          /\ sections' = [sections EXCEPT
                 ![elem].CodeHTML = <<highlightStart>> \o fragment \o <<highlightEnd>>,
                 ![elem].DocsHTML = MarkdownCommon(sections[elem].docsText)]
    /\ elem' = elem + 1
    /\ UNCHANGED <<code, lines, idx, hasCode, codeText, docsText, fpc>>
    /\ UNCHANGED <<mainVars, pipeVars>>

\* the loop ends and highlight returns
HighlightReturn ==
    /\ fpc = "extract" /\ elem > Len(sections)
    /\ fpc' = "done"
    /\ UNCHANGED <<code, lines, idx, hasCode, codeText, docsText, sections,
                   output, elem, matches>>
    /\ UNCHANGED <<mainVars, pipeVars>>

FileNext ==
    \/ ParseBegin
    \/ ParseLine
    \/ ParseSave
    \/ HighlightPipe
    \/ HighlightSection
    \/ HighlightReturn

(***************************************************************************)
(* Paths (path/filepath), the language table and destination               *)
(***************************************************************************)
\* the paths a command line is drawn from: a.go, b.go, d/a.go, a.xyz
PathAGo == <<"a", ".", "g", "o">>
PathBGo == <<"b", ".", "g", "o">>
PathDAGo == <<"d", "/", "a", ".", "g", "o">>
PathAXyz == <<"a", ".", "x", "y", "z">>
Paths == {PathAGo, PathBGo, PathDAGo, PathAXyz}

\* most path arguments of a run
MaxArgs == 2

\* the byte value of a character
Ord(c) ==
    CASE c = "." -> 46 [] c = "/" -> 47 [] c = "a" -> 97 [] c = "b" -> 98
      [] c = "c" -> 99 [] c = "d" -> 100 [] c = "g" -> 103 [] c = "h" -> 104
      [] c = "l" -> 108 [] c = "m" -> 109 [] c = "o" -> 111 [] c = "s" -> 115
      [] c = "t" -> 116 [] c = "x" -> 120 [] c = "y" -> 121 [] c = "z" -> 122

\* a < b for strings, byte by byte
StringLess(a, b) ==
    \E i \in 1..(Len(b)) :
        /\ \A k \in 1..(i-1) : k <= Len(a) /\ a[k] = b[k]
        /\ (i > Len(a) \/ Ord(a[i]) < Ord(b[i]))

\* sort.Strings(s): s in increasing order (insertion of each element in turn)
RECURSIVE SortStrings(_)
SortStrings(s) ==
    IF Len(s) <= 1 THEN s
    ELSE LET rest == SortStrings(SubSeq(s, 1, Len(s) - 1))
             x == s[Len(s)]
             k == Cardinality({i \in 1..Len(rest) : ~StringLess(x, rest[i])})
         IN SubSeq(rest, 1, k) \o <<x>> \o SubSeq(rest, k + 1, Len(rest))

\* filepath.Ext(path): from the last dot of the last element, or empty
Ext(path) ==
    LET dots == {i \in 1..Len(path) :
                    path[i] = "." /\ \A k \in i..Len(path) : path[k] # "/"}
    IN IF dots = {} THEN <<>>
       ELSE SubSeq(path, CHOOSE i \in dots : \A j \in dots : j <= i, Len(path))

\* filepath.Base(path): the last element, trailing slashes dropped
Base(path) ==
    IF path = <<>> THEN <<".">>
    ELSE LET n == CHOOSE k \in 0..Len(path) :
                      /\ \A i \in (k+1)..Len(path) : path[i] = "/"
                      /\ (k = 0 \/ path[k] # "/")
             slashes == {i \in 1..n : path[i] = "/"}
             from == IF slashes = {} THEN 1
                     ELSE 1 + CHOOSE i \in slashes : \A j \in slashes : j <= i
         IN IF n = 0 THEN <<"/">> ELSE SubSeq(path, from, n)

\* strings.LastIndex(s, sub), as a byte offset; -1 when sub is not in s
LastIndex(s, sub) ==
    LET at == {i \in 0..(Len(s) - Len(sub)) :
                  SubSeq(s, i + 1, i + Len(sub)) = sub}
    IN IF at = {} THEN -1 ELSE CHOOSE i \in at : \A j \in at : j <= i

\* destination(source)
destination(source) ==
    LET base == Base(source)
    IN <<"d", "o", "c", "s", "/">> \o SubSeq(base, 1, LastIndex(base, Ext(base)))
       \o <<".", "h", "t", "m", "l">>

\* the languages map after setup(); NilLanguage is the nil *Language a
\* lookup of an unknown extension returns
NilLanguage == [name |-> "nil", symbol |-> "nil"]
languages == (<<".", "g", "o">> :> [name |-> "go", symbol |-> SYM])

\* getLanguage(source)
getLanguage(source) ==
    IF Ext(source) \in DOMAIN languages THEN languages[Ext(source)]
    ELSE NilLanguage

(***************************************************************************)
(* main and generateDocumentation (src/main.go 117-126, 222-237, 296-325)  *)
(***************************************************************************)
MainIdle ==
    /\ argv = <<>> /\ args = <<>> /\ sources = <<>> /\ mainpc = "idle"
    /\ argi = 0 /\ wg = 0 /\ docsDir = FALSE /\ css = FALSE
    /\ task = <<>> /\ fs = {} /\ crashed = "no"

MainInit ==
    /\ argv \in SeqsUpTo(Paths, MaxArgs)
    /\ args = argv
    /\ sources = <<>>
    /\ mainpc = "setup"
    /\ argi = 0 /\ wg = 0 /\ docsDir = FALSE /\ css = FALSE
    /\ task = <<>> /\ fs = {} /\ crashed = "no"

\* the TemplateData of a goroutine that has not reached generateHTML
NoData ==
    [Title |-> <<>>, SectionsOf |-> <<>>, CodeHTML |-> "nil",
     Sources |-> <<>>, Multiple |-> FALSE]

\* a goroutine as the go statement creates it
NewTask(source) ==
    [source |-> source, pc |-> "read", read |-> FALSE, pygments |-> "none",
     CodeHTML |-> "nil", data |-> NoData]

\* MainSetup without sort.Strings(sources)
MainSetupUnsorted ==
    /\ crashed = "no" /\ mainpc = "setup"
    /\ sources' = args
    /\ args' = args
    /\ mainpc' = IF Len(args) <= 0 THEN "exit" ELSE "prepare"
    /\ UNCHANGED <<argv, argi, wg, docsDir, css, task, fs, crashed>>
    /\ UNCHANGED <<fileVars, pipeVars>>

\* main up to the test of flag.NArg(): sources is flag.Args(), the same
\* slice, sorted in place
MainSetup ==
    /\ crashed = "no" /\ mainpc = "setup"
    /\ sources' = SortStrings(args)
    /\ args' = SortStrings(args)
    /\ mainpc' = IF Len(args) <= 0 THEN "exit" ELSE "prepare"
    /\ UNCHANGED <<argv, argi, wg, docsDir, css, task, fs, crashed>>
    /\ UNCHANGED <<fileVars, pipeVars>>

\* ensureDirectory, the stylesheet, the WaitGroup and wg.Add
MainPrepare ==
    /\ crashed = "no" /\ mainpc = "prepare"
    /\ docsDir' = TRUE
    /\ css' = TRUE
    /\ wg' = Len(args)
    /\ argi' = 1
    /\ mainpc' = "spawn"
    /\ UNCHANGED <<argv, args, sources, task, fs, crashed>>
    /\ UNCHANGED <<fileVars, pipeVars>>

\* one iteration of the loop of go statements
MainSpawn ==
    /\ crashed = "no" /\ mainpc = "spawn" /\ argi <= Len(args)
    /\ task' = Append(task, NewTask(args[argi]))
    /\ argi' = argi + 1
    /\ UNCHANGED <<argv, args, sources, mainpc, wg, docsDir, css, fs, crashed>>
    /\ UNCHANGED <<fileVars, pipeVars>>

\* MainWait without the wait for the counter to reach zero
MainWaitNoBarrier ==
    /\ crashed = "no" /\ mainpc = "spawn" /\ argi > Len(args)
    /\ mainpc' = "exit"
    /\ UNCHANGED <<argv, args, sources, argi, wg, docsDir, css, task, fs,
                   crashed>>
    /\ UNCHANGED <<fileVars, pipeVars>>

\* wg.Wait() returns, and main with it
MainWait ==
    /\ crashed = "no" /\ mainpc = "spawn" /\ argi > Len(args)
    /\ wg = 0
    /\ mainpc' = "exit"
    /\ UNCHANGED <<argv, args, sources, argi, wg, docsDir, css, task, fs,
                   crashed>>
    /\ UNCHANGED <<fileVars, pipeVars>>

\* ioutil.ReadFile(source): the file is read, or log.Panic ends the process
TaskRead(t) ==
    /\ crashed = "no" /\ t \in DOMAIN task /\ task[t].pc = "read"
    /\ \E readable \in BOOLEAN :
          IF readable
          THEN /\ task' = [task EXCEPT ![t].read = TRUE, ![t].pc = "parse"]
               /\ UNCHANGED crashed
          ELSE /\ crashed' = "log.Panic: ReadFile"
               /\ UNCHANGED task
    /\ UNCHANGED <<argv, args, sources, mainpc, argi, wg, docsDir, css, fs>>
    /\ UNCHANGED <<fileVars, pipeVars>>

\* parse(source, code): language.commentMatcher is evaluated for the first
\* line, which dereferences the pointer getLanguage returned
TaskParse(t) ==
    /\ crashed = "no" /\ t \in DOMAIN task /\ task[t].pc = "parse"
    /\ IF getLanguage(task[t].source) = NilLanguage
       THEN /\ crashed' = "panic: nil pointer dereference"
            /\ UNCHANGED task
       ELSE /\ task' = [task EXCEPT ![t].pc = "highlight"]
            /\ UNCHANGED crashed
    /\ UNCHANGED <<argv, args, sources, mainpc, argi, wg, docsDir, css, fs>>
    /\ UNCHANGED <<fileVars, pipeVars>>

\* highlight(source, sections): no error of the pipes, of Start, of Write or
\* of io.Copy is looked at; whatever was read is split over the sections
\* and every section's CodeHTML is set
TaskHighlight(t) ==
    /\ crashed = "no" /\ t \in DOMAIN task /\ task[t].pc = "highlight"
    /\ \E outcome \in {"ok", "start failed", "read failed"} :
          task' = [task EXCEPT
                      ![t].pygments = outcome,
                      ![t].CodeHTML = CASE outcome = "ok" -> "rendered"
                                        [] outcome = "start failed" -> "empty"
                                        [] outcome = "read failed" -> "partial",
                      ![t].pc = "html"]
    /\ UNCHANGED <<argv, args, sources, mainpc, argi, wg, docsDir, css, fs,
                   crashed>>
    /\ UNCHANGED <<fileVars, pipeVars>>

\* generateHTML(source, sections): the TemplateData is built from the
\* sections and the global sources, and the page is written to dest
TaskGenerateHTML(t) ==
    /\ crashed = "no" /\ t \in DOMAIN task /\ task[t].pc = "html"
    /\ LET source == task[t].source
           dest == destination(source)
           data == [Title |-> Base(source), SectionsOf |-> source,
                    CodeHTML |-> task[t].CodeHTML,
                    Sources |-> sources, Multiple |-> Len(sources) > 1]
       IN /\ task' = [task EXCEPT ![t].data = data, ![t].pc = "wg.Done"]
          /\ fs' = {f \in fs : f.path # dest}
                      \cup {[path |-> dest, html |-> data]}
    /\ UNCHANGED <<argv, args, sources, mainpc, argi, wg, docsDir, css, crashed>>
    /\ UNCHANGED <<fileVars, pipeVars>>

\* wg.Done()
TaskDone(t) ==
    /\ crashed = "no" /\ t \in DOMAIN task /\ task[t].pc = "wg.Done"
    /\ wg' = wg - 1
    /\ task' = [task EXCEPT ![t].pc = "done"]
    /\ UNCHANGED <<argv, args, sources, mainpc, argi, docsDir, css, fs, crashed>>
    /\ UNCHANGED <<fileVars, pipeVars>>

MainStep == MainSetup \/ MainPrepare \/ MainSpawn \/ MainWait

MainNext ==
    \/ MainSetup
    \/ MainPrepare
    \/ MainSpawn
    \/ MainWait
    \/ \E t \in DOMAIN task : TaskRead(t)
    \/ \E t \in DOMAIN task : TaskParse(t)
    \/ \E t \in DOMAIN task : TaskHighlight(t)
    \/ \E t \in DOMAIN task : TaskGenerateHTML(t)
    \/ \E t \in DOMAIN task : TaskDone(t)

(***************************************************************************)
(* The pipes of highlight (src/main.go 181-196)                            *)
(***************************************************************************)
\* most sections, and most bytes of one section's code, of a piped file
MaxSections == 2
MaxCode == 3
\* bytes the stdin pipe, the highlighter and the stdout pipe can hold
InCap == 2
HeldCap == 1
OutCap == 2
\* len(dividerText): "\n" + "//" + "DIVIDER\n"
DividerLen == 11

\* the lengths of the writes of the first loop: each section's code, the
\* divider after every section but the last
RECURSIVE WriteLengths(_)
WriteLengths(sizes) ==
    IF Len(sizes) = 1 THEN <<sizes[1]>>
    ELSE <<sizes[1], DividerLen>> \o WriteLengths(Tail(sizes))

PipeIdle ==
    /\ chunks = <<>> /\ wpos = 0 /\ wleft = 0 /\ inPipe = 0 /\ held = 0
    /\ outPipe = 0 /\ inClosed = FALSE /\ outClosed = FALSE /\ buf = 0
    /\ hpc = "idle"

\* after pygments.Start(): the process runs, nothing is written yet; of the
\* sections parse returns only the last can be without code
PipeInit ==
    /\ \E n \in 1..MaxSections : \E sizes \in [1..n -> 0..MaxCode] :
          /\ \A i \in 1..(n-1) : sizes[i] >= 1
          /\ chunks = WriteLengths(sizes)
    /\ wpos = 1 /\ wleft = chunks[1]
    /\ inPipe = 0 /\ held = 0 /\ outPipe = 0
    /\ inClosed = FALSE /\ outClosed = FALSE /\ buf = 0
    /\ hpc = "write"

\* pygmentsInput.Write / io.WriteString: a byte goes into the stdin pipe
\* when it has room; the call returns when all its bytes are in
HWrite ==
    /\ hpc = "write" /\ wleft > 0 /\ inPipe < InCap
    /\ inPipe' = inPipe + 1
    /\ wleft' = wleft - 1
    /\ UNCHANGED <<chunks, wpos, held, outPipe, inClosed, outClosed, buf, hpc>>
    /\ UNCHANGED <<fileVars, mainVars>>

\* the write returned: on to the divider or to the next section
HNextWrite ==
    /\ hpc = "write" /\ wleft = 0 /\ wpos < Len(chunks)
    /\ wpos' = wpos + 1
    /\ wleft' = chunks[wpos + 1]
    /\ UNCHANGED <<chunks, inPipe, held, outPipe, inClosed, outClosed, buf, hpc>>
    /\ UNCHANGED <<fileVars, mainVars>>

\* pygmentsInput.Close() after the last write
HClose ==
    /\ hpc = "write" /\ wleft = 0 /\ wpos = Len(chunks)
    /\ inClosed' = TRUE
    /\ hpc' = "copy"
    /\ UNCHANGED <<chunks, wpos, wleft, inPipe, held, outPipe, outClosed, buf>>
    /\ UNCHANGED <<fileVars, mainVars>>

\* io.Copy(buf, pygmentsOutput) moves a byte
HCopy ==
    /\ hpc = "copy" /\ outPipe > 0
    /\ outPipe' = outPipe - 1
    /\ buf' = buf + 1
    /\ UNCHANGED <<chunks, wpos, wleft, inPipe, held, inClosed, outClosed, hpc>>
    /\ UNCHANGED <<fileVars, mainVars>>

\* io.Copy sees the end of the output and returns
HCopyEOF ==
    /\ hpc = "copy" /\ outPipe = 0 /\ outClosed
    /\ hpc' = "done"
    /\ UNCHANGED <<chunks, wpos, wleft, inPipe, held, outPipe, inClosed,
                   outClosed, buf>>
    /\ UNCHANGED <<fileVars, mainVars>>

\* the highlighter reads a byte of its input
PygRead ==
    /\ ~outClosed /\ inPipe > 0 /\ held < HeldCap
    /\ inPipe' = inPipe - 1
    /\ held' = held + 1
    /\ UNCHANGED <<chunks, wpos, wleft, outPipe, inClosed, outClosed, buf, hpc>>
    /\ UNCHANGED <<fileVars, mainVars>>

\* the highlighter writes a byte of output, while its input may still be open
PygEmit ==
    /\ ~outClosed /\ held > 0 /\ outPipe < OutCap
    /\ held' = held - 1
    /\ outPipe' = outPipe + 1
    /\ UNCHANGED <<chunks, wpos, wleft, inPipe, inClosed, outClosed, buf, hpc>>
    /\ UNCHANGED <<fileVars, mainVars>>

\* the highlighter sees the end of its input, has emitted everything and exits
PygExit ==
    /\ ~outClosed /\ inClosed /\ inPipe = 0 /\ held = 0
    /\ outClosed' = TRUE
    /\ UNCHANGED <<chunks, wpos, wleft, inPipe, held, outPipe, inClosed, buf, hpc>>
    /\ UNCHANGED <<fileVars, mainVars>>

PipeNext ==
    \/ HWrite
    \/ HNextWrite
    \/ HClose
    \/ HCopy
    \/ HCopyEOF
    \/ PygRead
    \/ PygEmit
    \/ PygExit

(***************************************************************************)
(* Specifications                                                          *)
(***************************************************************************)
Init == MainInit /\ FileIdle /\ PipeIdle
Next == MainNext
Spec == Init /\ [][Next]_vars

\* the go scheduler runs the main goroutine when it can take a step, so
\* wg.Wait() returns once the counter is zero
FairSpec == Spec /\ WF_vars(MainStep)

InitFile == FileInit /\ MainIdle /\ PipeIdle
SpecFile == InitFile /\ [][FileNext]_vars

InitPipe == PipeInit /\ MainIdle /\ FileIdle
SpecPipe == InitPipe /\ [][PipeNext]_vars

(***************************************************************************)
(* Properties of parse and highlight, checked under SpecFile               *)
(***************************************************************************)
\* the lines of a buffer in which every line is followed by a newline
TextLines(t) ==
    IF t = <<>> THEN <<>> ELSE SubSeq(Split(t), 1, Len(Split(t)) - 1)

Tagged(tag, ls) == [i \in 1..Len(ls) |-> <<tag, ls[i]>>]

\* the documentation lines, then the code lines, of every section in order
RECURSIVE Flatten(_)
Flatten(secs) ==
    IF secs = <<>> THEN <<>>
    ELSE Tagged("docs", TextLines(secs[1].docsText))
         \o Tagged("code", TextLines(secs[1].codeText))
         \o Flatten(Tail(secs))

\* the lines of the file with prefix put before every documentation line
RECURSIVE Rebuild(_, _)
Rebuild(secs, prefix) ==
    IF secs = <<>> THEN <<>>
    ELSE LET docs == TextLines(secs[1].docsText)
         IN [i \in 1..Len(docs) |-> prefix \o docs[i]]
            \o TextLines(secs[1].codeText)
            \o Rebuild(Tail(secs), prefix)

\* the comment prefixes a file of up to MaxLen bytes can hold: the strings
\* that commentMatcher matches whole
Prefixes ==
    {p \in SeqsUpTo({SP, SYM}, MaxLen) : p # <<>> /\ commentMatchLen(p) = Len(p)}

\* C2 as claimed: parse returns at least one section, and the documentation
\* lines with the comment prefix put back, followed by the code lines, over the
\* sections in order, are exactly the lines of the file, leading whitespace
\* and the byte after the comment symbol included.
C2_RoundTripExact ==
    fpc = "parsed" =>
        /\ Len(sections) >= 1
        /\ \E prefix \in Prefixes : Rebuild(sections, prefix) = Split(code)

\* C2 as amended: parse returns at least one section, and the documentation
\* lines followed by the code lines, over the sections in order, are the
\* pieces of the file between newlines, in order, none added and none lost:
\* a piece that is no comment is a code line byte for byte, a comment piece is
\* a documentation line without the text the comment matcher matched.
C2_RoundTripUpToPrefix ==
    fpc = "parsed" =>
        /\ Len(sections) >= 1
        /\ Flatten(sections) =
              [i \in 1..Len(Split(code)) |->
                  IF commentMatch(Split(code)[i])
                  THEN <<"docs", commentReplaceAll(Split(code)[i])>>
                  ELSE <<"code", Split(code)[i]>>]

\* parse returned several sections for a file with an indented comment
C2_Witness ==
    /\ fpc = "parsed"
    /\ Len(sections) >= 2
    /\ \E i \in 1..Len(lines) : commentMatch(lines[i]) /\ lines[i][1] = SP

\* the lines of a newline-terminated file: the pieces without the last one
FileLines(c) == SubSeq(Split(c), 1, Len(Split(c)) - 1)

\* a newline-terminated file of one or more groups, each one or more comment
\* lines followed by one or more lines that are no comment
Grouped(c) ==
    /\ c # <<>> /\ c[Len(c)] = NL
    /\ LET ls == FileLines(c)
       IN /\ commentMatch(ls[1])
          /\ ~commentMatch(ls[Len(ls)])

\* the lines at which a group starts, and the last line of the group at g
GroupStarts(ls) ==
    {i \in 1..Len(ls) :
        commentMatch(ls[i]) /\ (i = 1 \/ ~commentMatch(ls[i-1]))}
GroupEnd(ls, g) ==
    CHOOSE e \in g..Len(ls) :
        /\ \A i \in (g+1)..e : i \notin GroupStarts(ls)
        /\ (e = Len(ls) \/ e + 1 \in GroupStarts(ls))

RECURSIVE ConcatLines(_)
ConcatLines(ls) ==
    IF ls = <<>> THEN <<>> ELSE ls[1] \o <<NL>> \o ConcatLines(Tail(ls))

\* the section a group is claimed to give
GroupSection(ls, g) ==
    LET grp == SubSeq(ls, g, GroupEnd(ls, g))
        com == SelectSeq(grp, commentMatch)
        cod == SelectSeq(grp, LAMBDA l : ~commentMatch(l))
    IN [docsText |-> ConcatLines([i \in 1..Len(com) |-> commentReplaceAll(com[i])]),
        codeText |-> ConcatLines(cod)]

\* C3 as claimed: for a newline-terminated file of k groups, parse returns
\* k sections, and the i-th has the i-th group's comment lines, stripped, as
\* documentation and exactly the i-th group's other lines as code, each line
\* followed by one newline and nothing else.
C3_GroupsGiveSections ==
    (fpc = "parsed" /\ Grouped(code)) =>
        LET ls == FileLines(code)
            starts == GroupStarts(ls)
        IN /\ Len(sections) = Cardinality(starts)
           /\ \A g \in starts :
                 LET i == Cardinality({h \in starts : h <= g})
                 IN /\ i <= Len(sections)
                    /\ sections[i].docsText = GroupSection(ls, g).docsText
                    /\ sections[i].codeText = GroupSection(ls, g).codeText

\* the comment lines of ls[1..n] that come directly after a line that is none
Closers(ls, n) ==
    {i \in 2..n : commentMatch(ls[i]) /\ ~commentMatch(ls[i-1])}

\* C10: during the scan hasCode is true exactly when the code buffer is not
\* empty; a section is closed only at a comment line that comes directly after
\* a line that is no comment, so the sections closed after n lines are as many
\* as such lines among them; every returned section but the last has code,
\* and parse returns one section more than there are such lines.
C10_ScanInvariant ==
    /\ fpc = "scan" =>
          /\ hasCode <=> (codeText # <<>>)
          /\ Len(sections) = Cardinality(Closers(lines, idx - 1))
          /\ \A i \in 1..Len(sections) : sections[i].codeText # <<>>
    /\ fpc = "parsed" =>
          /\ Len(sections) = 1 + Cardinality(Closers(lines, Len(lines)))
          /\ \A i \in 1..(Len(sections) - 1) : sections[i].codeText # <<>>

\* parse returned three sections or more, the last one without code
C10_Witness ==
    /\ fpc = "parsed"
    /\ Len(sections) >= 3
    /\ sections[Len(sections)].codeText = <<>>

\* s without its leading and trailing newlines
TrimNL(s) ==
    LET keep == {i \in 1..Len(s) : s[i] # NL}
    IN IF keep = {} THEN <<>>
       ELSE SubSeq(s, CHOOSE i \in keep : \A j \in keep : i <= j,
                      CHOOSE i \in keep : \A j \in keep : j <= i)

\* C1 as claimed: highlight matches the divider once less than there are
\* sections, and every section's CodeHTML is the container markup around the
\* rendering of that section's own code (newlines at its ends aside), also
\* when a code line ends in the comment symbol followed by DIVIDER.
C1_SentinelRoundTrip ==
    fpc = "done" =>
        /\ matches = Len(sections) - 1
        /\ \A i \in 1..Len(sections) :
              /\ Len(sections[i].CodeHTML) >= 2
              /\ Head(sections[i].CodeHTML) = highlightStart
              /\ sections[i].CodeHTML[Len(sections[i].CodeHTML)] = highlightEnd
              /\ TrimNL(SubSeq(sections[i].CodeHTML, 2,
                               Len(sections[i].CodeHTML) - 1))
                   = TrimNL(RenderBody(sections[i].codeText))

(***************************************************************************)
(* Properties of the run, checked under Spec and FairSpec                  *)
(***************************************************************************)
\* s is t in lexicographic order
SortedPermutation(s, t) ==
    /\ Len(s) = Len(t)
    /\ \A i \in 1..Len(s) : \A j \in (i+1)..Len(s) : ~StringLess(s[j], s[i])
    /\ \A p \in Paths :
          Cardinality({i \in 1..Len(s) : s[i] = p})
            = Cardinality({i \in 1..Len(t) : t[i] = p})

\* the goroutine built its TemplateData
HasData(t) == task[t].pc \in {"wg.Done", "done"}

\* C4 as claimed: when the highlighter did not start or its output could not
\* be read, no section of the file gets a CodeHTML, generateHTML is not
\* reached and no document is written for the file.
C4_HighlightFailureStops ==
    \A t \in DOMAIN task :
        task[t].pygments \in {"start failed", "read failed"} =>
            /\ task[t].CodeHTML = "nil"
            /\ ~HasData(t)
            /\ \A f \in fs : f.html.SectionsOf # task[t].source

\* C5 as claimed: a path whose extension has no language fails with an
\* UnsupportedLanguage error before any file I/O: its file is not read, no
\* directory or stylesheet is made for it, no document is written for it.
C5_UnsupportedFailsFirst ==
    /\ \A t \in DOMAIN task :
          getLanguage(task[t].source) = NilLanguage =>
              /\ ~task[t].read
              /\ task[t].pc = "read"
    /\ (argv # <<>> /\ \A i \in DOMAIN argv : getLanguage(argv[i]) = NilLanguage)
          => (~docsDir /\ ~css /\ fs = {})
    /\ crashed \in {"no", "UnsupportedLanguage", "log.Panic: ReadFile"}

\* C6: with one path or more, main passes wg.Wait() only when one goroutine
\* per path argument was started and every one of them has written its
\* document and called wg.Done(); and once all of them have, main does pass.
C6_FanOutJoin ==
    /\ [](mainpc = "exit" /\ Len(argv) >= 1 =>
            /\ Len(task) = Len(argv)
            /\ SortedPermutation([i \in DOMAIN task |-> task[i].source], argv)
            /\ \A t \in DOMAIN task :
                  /\ task[t].pc = "done"
                  /\ \E f \in fs : f.path = destination(task[t].source))
    /\ ((Len(argv) >= 1 /\ Len(task) = Len(argv)
            /\ \A t \in DOMAIN task : task[t].pc = "done")
          ~> (mainpc = "exit"))

\* main has passed the barrier of a run of two paths or more
C6_Witness ==
    /\ mainpc = "exit"
    /\ Len(argv) >= 2
    /\ \A t \in DOMAIN task : task[t].pc = "done"

\* C7: whatever the interleaving, every goroutine's TemplateData, and every
\* document written, carries the same Sources, the path arguments in
\* lexicographic order, and Multiple is true exactly for two paths or more;
\* while goroutines exist the global sources is that sorted list.
C7_SharedSortedSources ==
    /\ task # <<>> => SortedPermutation(sources, argv)
    /\ \A t \in DOMAIN task :
          HasData(t) =>
              /\ SortedPermutation(task[t].data.Sources, argv)
              /\ task[t].data.Multiple = (Len(argv) > 1)
              /\ \A u \in DOMAIN task :
                    HasData(u) => task[u].data.Sources = task[t].data.Sources
    /\ \A f \in fs :
          /\ SortedPermutation(f.html.Sources, argv)
          /\ f.html.Multiple = (Len(argv) > 1)

\* two goroutines built their TemplateData in a run whose paths were given
\* out of order
C7_Witness ==
    /\ Len(argv) >= 2
    /\ StringLess(argv[2], argv[1])
    /\ \A t \in 1..2 : t \in DOMAIN task /\ HasData(t)

\* C9 as claimed: distinct paths have distinct destinations, so after the
\* join every path has its own document, made from its own file.
C9_DistinctOutputs ==
    mainpc = "exit" =>
        \A i \in DOMAIN args :
            /\ \A j \in DOMAIN args :
                  args[i] # args[j] => destination(args[i]) # destination(args[j])
            /\ \E f \in fs :
                  f.path = destination(args[i]) /\ f.html.SectionsOf = args[i]

(***************************************************************************)
(* Property of the pipes, checked under SpecPipe                           *)
(***************************************************************************)
\* C8 as claimed: highlight never blocks for good on a full pipe: until it
\* has read the whole output, highlight or the highlighter can take a step.
C8_NeverStuck == hpc = "done" \/ ENABLED PipeNext

====
